---- MODULE Spec2Model ----
(***************************************************************************)
(* Model of the SSA instruction set and register encoding of               *)
(* internal/atm/ssa/ir.go.                                                 *)
(*                                                                         *)
(* A Reg is a uint64.  A 64-bit word is modelled as the set of the         *)
(* positions of its 1-bits (a subset of 0..63), so that masks, shifts and  *)
(* truncation keep their width: bitwise AND is intersection, OR is union,  *)
(* a shift moves the positions and drops those that leave the word.        *)
(***************************************************************************)
EXTENDS Integers, Sequences, FiniteSets, TLC

VARIABLES regs, sw, iters, last, phi, heap, call, norm

vars == <<regs, sw, iters, last, phi, heap, call, norm>>

(***************************************************************************)
(* 64-bit words                                                            *)
(***************************************************************************)
WordBits == 64

BitPos == 0 .. (WordBits - 1)

\* the word of a small natural (an untyped Go constant or a small argument)
RECURSIVE BitsFrom(_, _)
BitsFrom(n, b) ==
    IF n = 0 THEN {}
    ELSE (IF n % 2 = 1 THEN {b} ELSE {}) \cup BitsFrom(n \div 2, b + 1)

Uint64(n) == BitsFrom(n, 0)

RECURSIVE ToNat(_)
ToNat(w) ==
    IF w = {} THEN 0
    ELSE LET b == CHOOSE x \in w : TRUE IN (2 ^ b) + ToNat(w \ {b})

And(a, b) == a \cap b

Or(a, b) == a \cup b

Shl(a, n) == { b + n : b \in a } \cap BitPos

Shr(a, n) == { b - n : b \in a } \cap BitPos

\* w - 1 for a nonzero word: the lowest 1-bit is cleared, the bits below it set
Dec(w) ==
    LET lo == CHOOSE b \in w : \A c \in w : b <= c
    IN  (w \ {lo}) \cup { c \in BitPos : c < lo }

\* conversion to uint8
Uint8(w) == w \cap (0 .. 7)

(***************************************************************************)
(* Register encoding                                                       *)
(***************************************************************************)
_B_ptr == 63

_B_kind == 59

_M_ptr == 1

_M_kind == 15

_R_ptr == Shl(Uint64(_M_ptr), _B_ptr)

_R_kind == Shl(Uint64(_M_kind), _B_kind)

_R_index == Dec(Shl(Uint64(1), _B_kind))

_K_max == 7

_K_arch == 12

_K_zero == 13

_K_temp == 14

_K_norm == 15

Rz == Or(Shl(Uint64(0), _B_ptr), Shl(Uint64(_K_zero), _B_kind))

Pn == Or(Shl(Uint64(1), _B_ptr), Shl(Uint64(_K_zero), _B_kind))

Tr == Or(Shl(Uint64(0), _B_ptr), Shl(Uint64(_K_temp), _B_kind))

Pr == Or(Shl(Uint64(1), _B_ptr), Shl(Uint64(_K_temp), _B_kind))

\* the outcome of a call that may panic: the panic, or the value returned
Panic == [panic |-> TRUE]

Ret(v) == [panic |-> FALSE, v |-> v]

\* mkreg as it would be if the reserved kinds were let through
mkreg_reserved(ptr, kind) ==
    IF kind > _K_max /\ kind \notin {_K_arch, _K_zero, _K_temp, _K_norm}
    THEN Panic
    ELSE Ret(Or(Shl(And(Uint64(ptr), Uint64(_M_ptr)), _B_ptr),
                Shl(And(Uint64(kind), Uint64(_M_kind)), _B_kind)))

mkreg(ptr, kind) ==
    IF kind > _K_max
    THEN Panic
    ELSE Ret(Or(Shl(And(Uint64(ptr), Uint64(_M_ptr)), _B_ptr),
                Shl(And(Uint64(kind), Uint64(_M_kind)), _B_kind)))

Ptr(self) == And(self, _R_ptr) # {}

Index(self) == And(self, _R_index)

\* kind() without the _R_kind mask: the pointer bit leaks into the kind
kind_nomask(self) == ToNat(Uint8(Shr(self, _B_kind)))

kind(self) == ToNat(Uint8(Shr(And(self, _R_kind), _B_kind)))

rename(self, i) == Or(And(self, Or(_R_ptr, _R_kind)), And(i, _R_index))

\* normalize() that forgets the pointer bit
normalize_dropptr(self, i) ==
    Or(Shl(Uint64(_K_norm), _B_kind), And(i, _R_index))

normalize(self, i) ==
    Or(Or(And(self, _R_ptr), Shl(Uint64(_K_norm), _B_kind)), And(i, _R_index))

(***************************************************************************)
(* Building registers.  Each slot holds a Reg value of the program         *)
(* together with the arguments it was built from (p, k, i), which the      *)
(* code does not store: they are what the decoded fields are compared to.  *)
(***************************************************************************)
MaxKindArg == 15

Slots == {1, 2}

PtrFlags == {0, 1}

KindArgs == 0 .. MaxKindArg

\* index arguments (an int, as a 64-bit two's complement word): 0, 1, one
\* using the highest bit of the index field, one that overflows the field by
\* one bit, and a negative one that covers the kind and pointer bits
IndexInputs ==
    { {}, {0}, {0, _B_kind - 1}, {_B_kind}, {0, _B_kind - 1, _B_kind, _B_kind + 1, _B_ptr} }

Fits(i) == i \subseteq (0 .. (_B_kind - 1))

\* the index argument as remembered beside a slot: kept when it fits the
\* index field, and only the fact that it did not fit otherwise
Arg(i) == IF Fits(i) THEN i ELSE {-1}

NoReg == [st |-> "none", w |-> {}, p |-> 0, k |-> 0, i |-> {}, via |-> "none"]

ArchRegWords ==
    { Or(Or(Shl(Uint64(p), _B_ptr), Shl(Uint64(_K_arch), _B_kind)), i) :
        p \in PtrFlags, i \in {{}, {0, _B_kind - 1}} }

ArchSlots ==
    { [st |-> "arch", w |-> w, p |-> 0, k |-> 0, i |-> {}, via |-> "none"] :
        w \in ArchRegWords }

ConstRegs == {"Rz", "Pn", "Tr", "Pr"}

ConstWord(c) ==
    CASE c = "Rz" -> Rz
      [] c = "Pn" -> Pn
      [] c = "Tr" -> Tr
      [] c = "Pr" -> Pr

ConstPtr(c) == IF c \in {"Pn", "Pr"} THEN 1 ELSE 0

ConstKind(c) == IF c \in {"Rz", "Pn"} THEN _K_zero ELSE _K_temp

Live(s) == regs[s].st \in {"built", "arch"}

Mkreg(s, p, k) ==
    /\ regs' = [regs EXCEPT ![s] =
                  IF mkreg(p, k).panic
                  THEN [st |-> "panic", w |-> {}, p |-> p, k |-> k, i |-> {},
                        via |-> "mkreg"]
                  ELSE [st |-> "built", w |-> mkreg(p, k).v, p |-> p, k |-> k,
                        i |-> {}, via |-> "mkreg"]]
    /\ UNCHANGED <<sw, iters, last, phi, heap, call, norm>>

Const(s, c) ==
    /\ regs' = [regs EXCEPT ![s] =
                  [st |-> "built", w |-> ConstWord(c), p |-> ConstPtr(c),
                   k |-> ConstKind(c), i |-> {}, via |-> "const"]]
    /\ UNCHANGED <<sw, iters, last, phi, heap, call, norm>>

Rename(s, i) ==
    /\ Live(s)
    /\ regs' = [regs EXCEPT ![s] =
                  IF regs[s].st = "built"
                  THEN [@ EXCEPT !.w = rename(@, i), !.i = Arg(i), !.via = "rename"]
                  ELSE [@ EXCEPT !.w = rename(@, i)]]
    /\ UNCHANGED <<sw, iters, last, phi, heap, call, norm>>

Normalize(s, i) ==
    /\ Live(s)
    /\ regs' = [regs EXCEPT ![s] =
                  IF regs[s].st = "built"
                  THEN [@ EXCEPT !.w = normalize(@, i), !.k = _K_norm, !.i = Arg(i),
                                 !.via = "normalize"]
                  ELSE [@ EXCEPT !.w = normalize(@, i)]]
    /\ UNCHANGED <<sw, iters, last, phi, heap, call, norm>>

Idle == "idle"

InitReg ==
    /\ regs \in [Slots -> {NoReg} \cup ArchSlots]
    /\ sw = Idle /\ iters = Idle /\ last = Idle /\ phi = Idle
    /\ heap = Idle /\ call = Idle /\ norm = Idle

NextReg ==
    \/ \E s \in Slots, p \in PtrFlags, k \in KindArgs : Mkreg(s, p, k)
    \/ \E s \in Slots, c \in ConstRegs : Const(s, c)
    \/ \E s \in Slots, i \in IndexInputs : Rename(s, i)
    \/ \E s \in Slots, i \in IndexInputs : Normalize(s, i)

SpecReg == InitReg /\ [][NextReg]_vars

\* one register, built and then renamed and normalized any number of times
InitOneReg ==
    /\ regs \in [Slots -> {NoReg} \cup ArchSlots]
    /\ regs[2] = NoReg
    /\ sw = Idle /\ iters = Idle /\ last = Idle /\ phi = Idle
    /\ heap = Idle /\ call = Idle /\ norm = Idle

NextOneReg ==
    \/ \E p \in PtrFlags, k \in KindArgs : Mkreg(1, p, k)
    \/ \E c \in ConstRegs : Const(1, c)
    \/ \E i \in IndexInputs : Rename(1, i)
    \/ \E i \in IndexInputs : Normalize(1, i)

SpecOneReg == InitOneReg /\ [][NextOneReg]_vars

(***************************************************************************)
(* IrSwitch and its successor iterator.  A *BasicBlock is modelled by a    *)
(* block number, nil by 0.  The iteration order of a Go map is not         *)
(* defined: iter() takes the order in which the range loop enumerates Br   *)
(* as an argument the action chooses freely.                               *)
(***************************************************************************)
MaxNext == 6

NilBlock == 0

Blocks == {1, 2}

KeySet == {-1, 0, 5}

Its == {1, 2}

Perms(S) ==
    { f \in [1 .. Cardinality(S) -> S] :
        \A a, b \in 1 .. Cardinality(S) : a # b => f[a] # f[b] }

SwapAt(s, a, b) == [s EXCEPT ![a] = s[b], ![b] = s[a]]

\* sort.Slice on a slice this short is an insertion sort: element j moves
\* left while it is less than its left neighbour
RECURSIVE SinkTarget(_, _)
SinkTarget(t, j) ==
    IF j > 1 /\ t[j].i < t[j - 1].i
    THEN SinkTarget(SwapAt(t, j, j - 1), j - 1)
    ELSE t

RECURSIVE SortTargetsFrom(_, _, _)
SortTargetsFrom(t, j, n) ==
    IF j > n THEN t ELSE SortTargetsFrom(SinkTarget(t, j), j + 1, n)

\* sort.Slice(t[:n], less) with less(i, j) = t[i].i < t[j].i
SortTargets(t, n) == SortTargetsFrom(t, 2, n)

IterTargets(self, order) ==
    LET n == Cardinality(DOMAIN self.Br)
        t == [j \in 1 .. n |-> [i |-> order[j], b |-> self.Br[order[j]]]]
    IN  Append(t, [i |-> 0, b |-> self.Ln])

\* iter() without the sort: the edges in map enumeration order
iter_unsorted(self, order) ==
    [t |-> IterTargets(self, order), i |-> -1]

iter(self, order) ==
    [t |-> SortTargets(IterTargets(self, order), Cardinality(DOMAIN self.Br)),
     i |-> -1]

\* what a call on the iterator protocol gave: a panic, or the block b
\* (Block), the pair val, ok (Value) or the boolean ok (Next)
Panicked == [panic |-> TRUE, b |-> NilBlock, val |-> 0, ok |-> FALSE]

RetBlock(b) == [panic |-> FALSE, b |-> b, val |-> 0, ok |-> FALSE]

RetValue(v, ok) == [panic |-> FALSE, b |-> NilBlock, val |-> v, ok |-> ok]

RetBool(ok) == [panic |-> FALSE, b |-> NilBlock, val |-> 0, ok |-> ok]

\* t[i] of a Go slice: an index out of range panics
SliceAt(t, i) == IF i < 0 \/ i >= Len(t) THEN Panic ELSE Ret(t[i + 1])

\* Next() that forgets to advance the cursor
_SwitchSuccessors_Next_stuck(self) ==
    [self |-> self, ret |-> self.i + 1 < Len(self.t)]

_SwitchSuccessors_Next(self) ==
    [self |-> [self EXCEPT !.i = self.i + 1], ret |-> self.i + 1 < Len(self.t)]

\* Block() without the test for the end of t
_SwitchSuccessors_Block_unchecked(self) ==
    IF SliceAt(self.t, self.i).panic THEN Panicked
    ELSE RetBlock(SliceAt(self.t, self.i).v.b)

_SwitchSuccessors_Block(self) ==
    IF self.i >= Len(self.t) THEN RetBlock(NilBlock)
    ELSE IF SliceAt(self.t, self.i).panic THEN Panicked
    ELSE RetBlock(SliceAt(self.t, self.i).v.b)

_SwitchSuccessors_Value(self) ==
    IF self.i >= Len(self.t) - 1 THEN RetValue(0, FALSE)
    ELSE IF SliceAt(self.t, self.i).panic THEN Panicked
    ELSE RetValue(SliceAt(self.t, self.i).v.i, TRUE)

\* a variable of the caller that holds no iterator yet
NoIter ==
    [live |-> FALSE, s |-> [t |-> <<>>, i |-> -1], nc |-> 0, nt |-> 0, ex |-> FALSE]

\* Successors() that hands out an iterator already in use when there is one
Successors_cached(k) ==
    /\ \E j \in Its :
         iters' = [iters EXCEPT ![k] =
                     IF iters[j].live THEN iters[j]
                     ELSE [live |-> TRUE,
                           s |-> iter(sw, CHOOSE o \in Perms(DOMAIN sw.Br) : TRUE),
                           nc |-> 0, nt |-> 0, ex |-> FALSE]]
    /\ last' = [it |-> k, op |-> "Successors", ret |-> RetBool(TRUE)]
    /\ UNCHANGED <<regs, sw, phi, heap, call, norm>>

\* it := sw.Successors(): the caller's variable k receives a new iterator
Successors(k) ==
    /\ \E order \in Perms(DOMAIN sw.Br) :
         iters' = [iters EXCEPT ![k] =
                     [live |-> TRUE, s |-> iter(sw, order), nc |-> 0, nt |-> 0,
                      ex |-> FALSE]]
    /\ last' = [it |-> k, op |-> "Successors", ret |-> RetBool(TRUE)]
    /\ UNCHANGED <<regs, sw, phi, heap, call, norm>>

\* it.Next(); nc counts the calls, nt those that returned true, ex records
\* that one returned false
NextOp(k) ==
    /\ iters[k].live
    /\ iters[k].nc < MaxNext
    /\ LET r == _SwitchSuccessors_Next(iters[k].s)
       IN  /\ iters' = [iters EXCEPT ![k] =
                          [@ EXCEPT !.s = r.self,
                                    !.nc = @ + 1,
                                    !.nt = IF r.ret THEN @ + 1 ELSE @,
                                    !.ex = @ \/ ~r.ret]]
           /\ last' = [it |-> k, op |-> "Next", ret |-> RetBool(r.ret)]
    /\ UNCHANGED <<regs, sw, phi, heap, call, norm>>

BlockOp(k) ==
    /\ iters[k].live
    /\ last' = [it |-> k, op |-> "Block", ret |-> _SwitchSuccessors_Block(iters[k].s)]
    /\ UNCHANGED <<regs, sw, iters, phi, heap, call, norm>>

ValueOp(k) ==
    /\ iters[k].live
    /\ last' = [it |-> k, op |-> "Value", ret |-> _SwitchSuccessors_Value(iters[k].s)]
    /\ UNCHANGED <<regs, sw, iters, phi, heap, call, norm>>

Switches ==
    { [V |-> Tr, Ln |-> l, Br |-> br] :
        l \in Blocks, br \in UNION { [K -> Blocks] : K \in SUBSET KeySet } }

InitSwitch ==
    /\ sw \in Switches
    /\ iters = [k \in Its |-> NoIter]
    /\ last = [it |-> 0, op |-> "none", ret |-> RetBool(TRUE)]
    /\ regs = Idle /\ phi = Idle /\ heap = Idle /\ call = Idle /\ norm = Idle

NextSwitch ==
    \/ \E k \in Its : Successors(k)
    \/ \E k \in Its : NextOp(k)
    \/ \E k \in Its : BlockOp(k)
    \/ \E k \in Its : ValueOp(k)

SpecSwitch == InitSwitch /\ [][NextSwitch]_vars

(***************************************************************************)
(* IrPhi.  A *BasicBlock is a block pointer whose Id field is id[b]; two   *)
(* blocks may carry the same Id.  A *Reg is a location (an address), here  *)
(* a name.  Usages() takes the order in which the range loop enumerates V. *)
(***************************************************************************)
BlockPtrs == {1, 2, 3}

BlockIdSet == {1, 2, 3}

RegLocs == {"r1", "r2", "r3"}

_PhiSorter_Len(self) == Len(self.k)

\* Swap() that exchanges the keys and leaves the locations in place
_PhiSorter_Swap_keysonly(self, i, j) ==
    [k |-> SwapAt(self.k, i, j), v |-> self.v]

_PhiSorter_Swap(self, i, j) ==
    [k |-> SwapAt(self.k, i, j), v |-> SwapAt(self.v, i, j)]

_PhiSorter_Less(self, i, j) == self.k[i] < self.k[j]

\* sort.Sort on data this short is an insertion sort over Less and Swap
RECURSIVE SinkPhi(_, _)
SinkPhi(data, j) ==
    IF j > 1 /\ _PhiSorter_Less(data, j, j - 1)
    THEN SinkPhi(_PhiSorter_Swap(data, j, j - 1), j - 1)
    ELSE data

RECURSIVE SortPhiFrom(_, _)
SortPhiFrom(data, j) ==
    IF j > _PhiSorter_Len(data) THEN data ELSE SortPhiFrom(SinkPhi(data, j), j + 1)

SortPhi(data) == SortPhiFrom(data, 2)

IrPhi_Usages(self, order) ==
    LET n == Cardinality(DOMAIN self.V)
        k == [j \in 1 .. n |-> self.id[order[j]]]
        v == [j \in 1 .. n |-> self.V[order[j]]]
    IN  SortPhi([k |-> k, v |-> v]).v

IrPhi_Definations(self) == <<self.R>>

PhiUsages ==
    /\ \E order \in Perms(DOMAIN phi.V) :
         last' = [op |-> "Usages", order |-> order, ret |-> IrPhi_Usages(phi, order)]
    /\ UNCHANGED <<regs, sw, iters, phi, heap, call, norm>>

PhiDefinations ==
    /\ last' = [op |-> "Definations", order |-> <<>>, ret |-> IrPhi_Definations(phi)]
    /\ UNCHANGED <<regs, sw, iters, phi, heap, call, norm>>

Phis ==
    { [R |-> "R", V |-> v, id |-> d] :
        v \in UNION { [K -> RegLocs] : K \in SUBSET BlockPtrs },
        d \in [BlockPtrs -> BlockIdSet] }

InitPhi ==
    /\ phi \in Phis
    /\ last = [op |-> "none", order |-> <<>>, ret |-> <<>>]
    /\ regs = Idle /\ sw = Idle /\ iters = Idle
    /\ heap = Idle /\ call = Idle /\ norm = Idle

NextPhi ==
    \/ PhiUsages
    \/ PhiDefinations

SpecPhi == InitPhi /\ [][NextPhi]_vars

(***************************************************************************)
(* IrCall.  An IrCall is a struct literal: the package has no constructor. *)
(* A []Reg is a slice (its backing array's name and its length); the       *)
(* register fields live in memory at locations Loc(owner, j).              *)
(***************************************************************************)
MaxIn == 2

MaxOut == 1

CallTypes == {"CCall", "GCall", "ICall"}

Loc(base, j) == [base |-> base, j |-> j]

\* regsliceref(v): the addresses of the elements of v, in order
regsliceref(v) == [j \in 1 .. v.len |-> Loc(v.base, j)]

\* the outcome of a method of IrCall: a panic or the locations (for String,
\* none) returned
CallPanic == [panic |-> TRUE, locs |-> <<>>]

CallRet(locs) == [panic |-> FALSE, locs |-> locs]

IrCall_String(self) ==
    IF self.Rx.nil = (self.Type = "ICall") THEN CallPanic
    ELSE IF self.Type \notin {"CCall", "GCall", "ICall"} THEN CallPanic
    ELSE CallRet(<<>>)

IrCall_Usages(self) ==
    IF self.Rx.nil
    THEN CallRet(regsliceref(self.In))
    ELSE CallRet(<<Loc("Rx", 1), Loc("Rx", 2)>> \o regsliceref(self.In))

IrCall_Definations(self) == CallRet(regsliceref(self.Out))

NoCall ==
    [live |-> FALSE, Type |-> "CCall", Rx |-> [nil |-> TRUE],
     In |-> [base |-> "In", len |-> 0], Out |-> [base |-> "Out", len |-> 0]]

NewCall(ty, rxnil, nin, nout) ==
    /\ call' = [live |-> TRUE, Type |-> ty, Rx |-> [nil |-> rxnil],
                In |-> [base |-> "In", len |-> nin],
                Out |-> [base |-> "Out", len |-> nout]]
    /\ last' = [op |-> "new", ret |-> CallRet(<<>>)]
    /\ UNCHANGED <<regs, sw, iters, phi, heap, norm>>

CallString ==
    /\ call.live
    /\ last' = [op |-> "String", ret |-> IrCall_String(call)]
    /\ UNCHANGED <<regs, sw, iters, phi, heap, call, norm>>

CallUsages ==
    /\ call.live
    /\ last' = [op |-> "Usages", ret |-> IrCall_Usages(call)]
    /\ UNCHANGED <<regs, sw, iters, phi, heap, call, norm>>

CallDefinations ==
    /\ call.live
    /\ last' = [op |-> "Definations", ret |-> IrCall_Definations(call)]
    /\ UNCHANGED <<regs, sw, iters, phi, heap, call, norm>>

InitCall ==
    /\ call = NoCall
    /\ last = [op |-> "none", ret |-> CallRet(<<>>)]
    /\ regs = Idle /\ sw = Idle /\ iters = Idle
    /\ phi = Idle /\ heap = Idle /\ norm = Idle

NextCall ==
    \/ \E ty \in CallTypes, rxnil \in BOOLEAN, nin \in 0 .. MaxIn, nout \in 0 .. MaxOut :
         NewCall(ty, rxnil, nin, nout)
    \/ CallString
    \/ CallUsages
    \/ CallDefinations

SpecCall == InitCall /\ [][NextCall]_vars

(***************************************************************************)
(* A function of three blocks and the pass that normalizes its registers.  *)
(* heap maps every register location to the Reg stored there: the fields   *)
(* of the five instructions, and the temporaries a call could return the   *)
(* address of instead.  The pass takes each location an instruction        *)
(* reports and stores normalize(i) of the register through it.             *)
(***************************************************************************)
IrCopy(r, v) == [R |-> r, X |-> v, Y |-> Rz, Op |-> "IrOpAdd"]

IrBinaryExpr(r, x, y, op) == [R |-> r, X |-> x, Y |-> y, Op |-> op]

Instrs == {"copy", "cmp", "switch", "ret1", "ret2"}

InstrType(n) ==
    CASE n \in {"copy", "cmp"} -> "IrBinaryExpr"
      [] n = "switch" -> "IrSwitch"
      [] n \in {"ret1", "ret2"} -> "IrReturn"

\* the slice R of an IrReturn: one return value
ReturnRegs(n) == [base |-> n, len |-> 1]

\* Usages() that returns the addresses of copies of X and Y
IrBinaryExpr_Usages_copies(n) == <<Loc("tmp", 1), Loc("tmp", 2)>>

IrBinaryExpr_Usages(n) == <<Loc(n, 2), Loc(n, 3)>>

IrBinaryExpr_Definations(n) == <<Loc(n, 1)>>

IrSwitch_Usages(n) == <<Loc(n, 1)>>

IrReturn_Usages(n) == regsliceref(ReturnRegs(n))

\* the IrUsages and IrDefinations capabilities of a node; a node without
\* the capability reports nothing
Usages(n) ==
    CASE InstrType(n) = "IrBinaryExpr" -> IrBinaryExpr_Usages(n)
      [] InstrType(n) = "IrSwitch" -> IrSwitch_Usages(n)
      [] InstrType(n) = "IrReturn" -> IrReturn_Usages(n)

Definations(n) ==
    CASE InstrType(n) = "IrBinaryExpr" -> IrBinaryExpr_Definations(n)
      [] OTHER -> <<>>

Range(f) == { f[x] : x \in DOMAIN f }

\* the register fields of the instructions, as the struct types declare them
FieldLocs ==
    { Loc(n, j) : n \in {"copy", "cmp"}, j \in {1, 2, 3} }
        \cup { Loc("switch", 1), Loc("ret1", 1), Loc("ret2", 1) }

TmpLocs == { Loc("tmp", 1), Loc("tmp", 2) }

\* the index the pass gives the register at a location
NormIndex(l) ==
    CASE l.base = "copy" -> Uint64(l.j)
      [] l.base = "cmp" -> Uint64(3 + l.j)
      [] l.base = "switch" -> Uint64(7)
      [] l.base = "ret1" -> Uint64(8)
      [] l.base = "ret2" -> {0, _B_kind}
      [] OTHER -> {}

\* memory after the front end built the function from argument a (pointer
\* flag p, generic class k): t = a + 0; c = (t == 0); switch c; ret t; ret 0
GraphHeap(p, k) ==
    LET a == mkreg(p, k).v
        t == rename(IF p = 1 THEN Pr ELSE Tr, Uint64(1))
        c == rename(Tr, Uint64(2))
        copy == IrCopy(t, a)
        cmp == IrBinaryExpr(c, t, Rz, "IrCmpEq")
    IN  [l \in FieldLocs \cup TmpLocs |->
            CASE l = Loc("copy", 1) -> copy.R
              [] l = Loc("copy", 2) -> copy.X
              [] l = Loc("copy", 3) -> copy.Y
              [] l = Loc("cmp", 1) -> cmp.R
              [] l = Loc("cmp", 2) -> cmp.X
              [] l = Loc("cmp", 3) -> cmp.Y
              [] l = Loc("switch", 1) -> c
              [] l = Loc("ret1", 1) -> t
              [] l = Loc("ret2", 1) -> Rz
              [] OTHER -> Rz]

\* *l = l.normalize(i) for one location l reported by instruction n
NormalizeAt(n, l) ==
    /\ l \in Range(Usages(n)) \cup Range(Definations(n))
    /\ l \notin norm.written
    /\ heap' = [heap EXCEPT ![l] = normalize(@, NormIndex(l))]
    /\ norm' = [norm EXCEPT !.written = @ \cup {l}]
    /\ last' = [op |-> "write", n |-> n, regs |-> <<>>]
    /\ UNCHANGED <<regs, sw, iters, phi, call>>

\* n.Usages(), each location read
ReadUsages(n) ==
    /\ last' = [op |-> "Usages", n |-> n,
                regs |-> [j \in DOMAIN Usages(n) |-> heap[Usages(n)[j]]]]
    /\ UNCHANGED <<regs, sw, iters, phi, heap, call, norm>>

\* n.Definations(), each location read
ReadDefinations(n) ==
    /\ last' = [op |-> "Definations", n |-> n,
                regs |-> [j \in DOMAIN Definations(n) |-> heap[Definations(n)[j]]]]
    /\ UNCHANGED <<regs, sw, iters, phi, heap, call, norm>>

InitGraph ==
    /\ \E p \in PtrFlags, k \in {0, _K_max} :
         /\ heap = GraphHeap(p, k)
         /\ norm = [written |-> {}, orig |-> GraphHeap(p, k)]
    /\ last = [op |-> "none", n |-> "copy", regs |-> <<>>]
    /\ regs = Idle /\ sw = Idle /\ iters = Idle /\ phi = Idle /\ call = Idle

NextGraph ==
    \/ \E n \in Instrs, l \in FieldLocs \cup TmpLocs : NormalizeAt(n, l)
    \/ \E n \in Instrs : ReadUsages(n)
    \/ \E n \in Instrs : ReadDefinations(n)

SpecGraph == InitGraph /\ [][NextGraph]_vars

(***************************************************************************)
(* Claims about the register encoding                                      *)
(***************************************************************************)
FlagOf(p) == p = 1

\* i modulo 2^59: the index an int argument is truncated to
Trunc(i) == { b \in i : b < _B_kind }

\* C5 as stated: mkreg rejects exactly the kinds between the maximum generic
\* class and the reserved kinds (8..11); it accepts kinds 0..7 and the reserved
\* kinds 12..15 and returns a register of the kind asked for.
C5_MkregAcceptsReserved ==
    \A s \in Slots :
        regs[s].via = "mkreg" =>
            /\ regs[s].st = "panic" <=> regs[s].k \in (_K_max + 1) .. (_K_arch - 1)
            /\ regs[s].st = "built" => kind(regs[s].w) = regs[s].k

\* C5 amended: mkreg rejects every kind above the maximum generic class (7),
\* the reserved kinds 12..15 included; kinds 0..7 are accepted and give a
\* register of that kind, with the pointer flag asked for and index 0.
C5_MkregRejectsAboveMax ==
    \A s \in Slots :
        regs[s].via = "mkreg" =>
            /\ regs[s].st = "panic" <=> regs[s].k > _K_max
            /\ regs[s].st = "built" =>
                  /\ kind(regs[s].w) = regs[s].k
                  /\ Ptr(regs[s].w) = FlagOf(regs[s].p)
                  /\ Index(regs[s].w) = {}

C5_Witness ==
    /\ regs[1].via = "mkreg" /\ regs[1].st = "panic" /\ regs[1].k = _K_zero
    /\ regs[2].via = "mkreg" /\ regs[2].st = "built" /\ regs[2].k = _K_max
    /\ regs[2].p = 1

\* C6: a register built by mkreg or from Rz/Pn/Tr/Pr and then renamed or
\* normalized with an index that fits the index field decodes through Ptr(),
\* kind() and Index() to the pointer flag, kind and index it was built from,
\* and two registers built from different triples are different words.
C6_RoundTripInjective ==
    /\ \A s \in Slots :
          (regs[s].st = "built" /\ Fits(regs[s].i)) =>
              /\ Ptr(regs[s].w) = FlagOf(regs[s].p)
              /\ kind(regs[s].w) = regs[s].k
              /\ Index(regs[s].w) = regs[s].i
    /\ \A s, t \in Slots :
          ( /\ regs[s].st = "built" /\ Fits(regs[s].i)
            /\ regs[t].st = "built" /\ Fits(regs[t].i)
            /\ <<regs[s].p, regs[s].k, regs[s].i>> # <<regs[t].p, regs[t].k, regs[t].i>> )
          => regs[s].w # regs[t].w

C6_Witness ==
    /\ regs[1].via = "rename" /\ regs[1].p = 1 /\ regs[1].k = _K_max
    /\ regs[1].i = {0, _B_kind - 1}
    /\ regs[2].via = "normalize" /\ regs[2].p = 1 /\ regs[2].i = {0, _B_kind - 1}
    /\ regs[1].w # regs[2].w

\* C7: rename(i) keeps the pointer flag and the kind and sets the index to i
\* truncated to the index field, and renaming again with i changes nothing;
\* normalize(i) gives kind SSA-normalized whatever the kind was, index i
\* truncated, and the pointer flag of the register it was applied to.
C7_RenameNormalize ==
    [][\A s \in Slots, i \in IndexInputs :
         /\ Rename(s, i) =>
               /\ Ptr(regs'[s].w) = Ptr(regs[s].w)
               /\ kind(regs'[s].w) = kind(regs[s].w)
               /\ Index(regs'[s].w) = Trunc(i)
               /\ rename(regs'[s].w, i) = regs'[s].w
         /\ Normalize(s, i) =>
               /\ kind(regs'[s].w) = _K_norm
               /\ Index(regs'[s].w) = Trunc(i)
               /\ Ptr(regs'[s].w) = Ptr(regs[s].w)]_vars

\* an arch-specific pointer register after normalize(i), with its index
\* replaced
C7_Witness ==
    /\ regs[1].st = "arch" /\ kind(regs[1].w) = _K_norm /\ Ptr(regs[1].w)
    /\ Index(regs[1].w) = {0}

(***************************************************************************)
(* Claims about IrSwitch.Successors()                                      *)
(***************************************************************************)
NBr == Cardinality(DOMAIN sw.Br)

\* the j-th smallest discriminant of Br, j counted from 0
NthKey(j) ==
    CHOOSE k \in DOMAIN sw.Br : Cardinality({ x \in DOMAIN sw.Br : x < k }) = j

ExpectedBlock(j) == IF j < NBr THEN sw.Br[NthKey(j)] ELSE sw.Ln

ExpectedTargets ==
    [j \in 1 .. NBr + 1 |->
        [i |-> IF j <= NBr THEN NthKey(j - 1) ELSE 0, b |-> ExpectedBlock(j - 1)]]

MinOf(a, b) == IF a < b THEN a ELSE b

\* C1: stepping a Successors() iterator with Next() yields exactly
\* len(Br)+1 edges: after the c-th call that returned true (c <= len(Br))
\* Block() is the block of the c-th smallest discriminant and Value() is
\* (that discriminant, true); the last edge is Ln with no value.
C1_SwitchEdges ==
    \A k \in Its :
        iters[k].live =>
            LET s == iters[k].s
                c == iters[k].nc
            IN  /\ iters[k].nt = MinOf(c, NBr + 1)
                /\ c \in 1 .. NBr + 1 =>
                      /\ _SwitchSuccessors_Block(s) = RetBlock(ExpectedBlock(c - 1))
                      /\ ~_SwitchSuccessors_Value(s).panic
                      /\ _SwitchSuccessors_Value(s).ok = (c <= NBr)
                      /\ c <= NBr => _SwitchSuccessors_Value(s).val = NthKey(c - 1)
                /\ (last.it = k /\ last.op = "Block" /\ c \in 1 .. NBr + 1) =>
                      last.ret = RetBlock(ExpectedBlock(c - 1))
                /\ (last.it = k /\ last.op = "Value" /\ c \in 1 .. NBr) =>
                      last.ret = RetValue(NthKey(c - 1), TRUE)
                /\ (last.it = k /\ last.op = "Value" /\ c = NBr + 1) =>
                      (~last.ret.panic /\ ~last.ret.ok)

\* the switch {-1: 2, 0: 1, 5: 1} with default 2, stepped to its default
\* edge, whose Value() was just read
C1_Witness ==
    /\ DOMAIN sw.Br = {-1, 0, 5} /\ sw.Br[-1] = 2 /\ sw.Br[0] = 1 /\ sw.Br[5] = 1
    /\ sw.Ln = 2
    /\ iters[1].live /\ iters[1].nc = 4 /\ iters[1].nt = 4
    /\ last.it = 1 /\ last.op = "Value"

\* C2: no call changes the switch; every iterator holds the full edge
\* sequence; Successors() returns an iterator at its start and leaves the
\* other iterators as they are, and so do Next(), Block() and Value().
C2_Restartable ==
    /\ [][sw' = sw]_vars
    /\ [](\A k \in Its : iters[k].live => iters[k].s.t = ExpectedTargets)
    /\ [][\A k \in Its :
            Successors(k) =>
                /\ iters'[k].s.i = -1 /\ iters'[k].nc = 0
                /\ \A j \in Its \ {k} : iters'[j] = iters[j]]_vars
    /\ [][\A k \in Its :
            (NextOp(k) \/ BlockOp(k) \/ ValueOp(k)) =>
                \A j \in Its \ {k} : iters'[j] = iters[j]]_vars

\* a second iterator just returned while the first one is exhausted
C2_Witness ==
    /\ NBr = 2
    /\ iters[1].live /\ iters[1].ex
    /\ iters[2].live /\ iters[2].nc = 0
    /\ last.it = 2 /\ last.op = "Successors"

\* C9: Next() returns true on its first len(Br)+1 calls and false on every
\* later one; once it has returned false Block() is nil and Value() reports
\* no value; Block() and Value() do not move the iterator.
C9_Exhaustion ==
    /\ [](\A k \in Its :
            iters[k].live =>
                /\ (last.it = k /\ last.op = "Next") =>
                      last.ret.ok = (iters[k].nc <= NBr + 1)
                /\ iters[k].ex =>
                      /\ iters[k].nc > NBr + 1
                      /\ _SwitchSuccessors_Block(iters[k].s) = RetBlock(NilBlock)
                      /\ ~_SwitchSuccessors_Value(iters[k].s).panic
                      /\ ~_SwitchSuccessors_Value(iters[k].s).ok
                /\ (iters[k].ex /\ last.it = k /\ last.op = "Block") =>
                      last.ret = RetBlock(NilBlock)
                /\ (iters[k].ex /\ last.it = k /\ last.op = "Value") =>
                      (~last.ret.panic /\ ~last.ret.ok))
    /\ [][\A k \in Its : (BlockOp(k) \/ ValueOp(k)) => iters' = iters]_vars
    /\ [][\A k \in Its :
            (NextOp(k) /\ iters[k].ex) => (~last'.ret.ok /\ iters'[k].ex)]_vars

\* Block() read after Next() has returned false twice
C9_Witness ==
    /\ NBr = 2
    /\ iters[1].live /\ iters[1].ex /\ iters[1].nc = NBr + 3
    /\ last.it = 1 /\ last.op = "Block"

\* C10 as stated: Block() and Value() return a result in every state of the
\* iterator, the state before the first Next() included.
C10_BlockValueTotal ==
    last.op \in {"Block", "Value"} => ~last.ret.panic

\* C10 amended: Block() and Value() return a result in every state reached
\* after at least one Next() call; before the first Next() both fail with an
\* index out of range.
C10_TotalAfterNext ==
    /\ \A k \in Its :
          iters[k].live =>
              /\ _SwitchSuccessors_Block(iters[k].s).panic = (iters[k].nc = 0)
              /\ _SwitchSuccessors_Value(iters[k].s).panic = (iters[k].nc = 0)
    /\ last.op \in {"Block", "Value"} =>
          last.ret.panic = (iters[last.it].nc = 0)

\* Value() read on an exhausted iterator while another has not been stepped
C10_Witness ==
    /\ iters[1].live /\ iters[1].ex
    /\ last.it = 1 /\ last.op = "Value" /\ ~last.ret.panic
    /\ iters[2].live /\ iters[2].nc = 0

(***************************************************************************)
(* Claims about IrPhi and IrCall                                           *)
(***************************************************************************)
DistinctIds ==
    \A a, b \in DOMAIN phi.V : a # b => phi.id[a] # phi.id[b]

\* the predecessor block with j-1 smaller ids among the keys of V
NthPred(j) ==
    CHOOSE b \in DOMAIN phi.V :
        Cardinality({ x \in DOMAIN phi.V : phi.id[x] < phi.id[b] }) = j - 1

\* C3: when the predecessor blocks have distinct ids, Usages() returns one
\* location per entry of V, in ascending order of block id whatever the order
\* of enumeration, each the location V stores for that block; Definations()
\* returns the location of R alone.
C3_PhiUsages ==
    /\ (last.op = "Usages" /\ DistinctIds) =>
          /\ Len(last.ret) = Cardinality(DOMAIN phi.V)
          /\ \A j \in 1 .. Len(last.ret) : last.ret[j] = phi.V[NthPred(j)]
    /\ last.op = "Definations" => last.ret = <<phi.R>>

\* blocks with ids 3, 1, 2 holding r3, r1, r2, enumerated in that order
C3_Witness ==
    /\ DOMAIN phi.V = {1, 2, 3}
    /\ phi.id = (1 :> 3 @@ 2 :> 1 @@ 3 :> 2)
    /\ phi.V = (1 :> "r3" @@ 2 :> "r1" @@ 3 :> "r2")
    /\ last.op = "Usages" /\ last.order = <<1, 2, 3>>
    /\ last.ret = <<"r1", "r2", "r3">>

Mismatch(c) == c.Rx.nil = (c.Type = "ICall")

\* C4: no call whose receiver does not match its kind exists on which
\* Usages() or Definations() returned locations without a failure.
C4_MismatchRejected ==
    ~( /\ call.live /\ Mismatch(call)
       /\ last.op \in {"Usages", "Definations"}
       /\ ~last.ret.panic )

(***************************************************************************)
(* Claims about the normalization of the three-block function              *)
(***************************************************************************)
ReportedLocs ==
    UNION { Range(Usages(n)) \cup Range(Definations(n)) : n \in Instrs }

Normalized(l) ==
    /\ kind(heap[l]) = _K_norm
    /\ Ptr(heap[l]) = Ptr(norm.orig[l])

\* C8: a register written through a reported location is the register the
\* owning instruction holds and the one later Usages()/Definations() calls
\* read; once normalize(i) has been written through every reported location,
\* every register field of every instruction, and every register read
\* through Usages()/Definations(), has kind SSA-normalized and the pointer
\* flag it had.
C8_NormalizedGraph ==
    /\ \A l \in norm.written :
          /\ l \in FieldLocs
          /\ heap[l] = normalize(norm.orig[l], NormIndex(l))
    /\ last.op \in {"Usages", "Definations"} =>
          LET locs == IF last.op = "Usages" THEN Usages(last.n)
                      ELSE Definations(last.n)
          IN  \A j \in DOMAIN locs :
                  /\ locs[j] \in FieldLocs /\ locs[j].base = last.n
                  /\ locs[j] \in norm.written =>
                        /\ kind(last.regs[j]) = _K_norm
                        /\ Ptr(last.regs[j]) = Ptr(norm.orig[locs[j]])
    /\ norm.written = ReportedLocs =>
          /\ \A l \in FieldLocs : Normalized(l)
          /\ \A n \in Instrs :
                /\ \A j \in DOMAIN Usages(n) : Normalized(Usages(n)[j])
                /\ \A j \in DOMAIN Definations(n) : Normalized(Definations(n)[j])

\* every location written, the argument a pointer, and the operands of the
\* copy just read back
C8_Witness ==
    /\ norm.written = ReportedLocs
    /\ Ptr(norm.orig[Loc("copy", 2)])
    /\ last.op = "Usages" /\ last.n = "copy"
    /\ Len(last.regs) = 2 /\ Ptr(last.regs[1]) /\ ~Ptr(last.regs[2])

====
